---- MODULE Spec2Model ----
(***************************************************************************)
(* Model of the Neurion "dnatool" sequence engine:                         *)
(*   - mutation.cpp : pointMutation, insertion, deletion and the           *)
(*                    randomized batch driver simulateRandomMutations      *)
(*   - analysis.cpp : codonUsage and findORFs                              *)
(*                                                                         *)
(* A std::string is a sequence of one-character strings; C++ indices are   *)
(* zero-based, so the character at C++ index k is s[k + 1].  size_t is an  *)
(* unsigned word of WordBits bits (64 in the build, scaled down here so    *)
(* that wrap-around is reachable).                                         *)
(***************************************************************************)
EXTENDS Integers, Sequences, FiniteSets, TLC

VARIABLES
    pc,             \* "idle" | "loop" | "done": position of the one caller
    call,           \* the call being made: [op, ...arguments]
    seq,            \* the std::string& handed to the mutation engine
    seq0,           \* the value of seq when a primitive was called
    outcome,        \* "none" | "ok" | the kind of the exception that escaped
    i,              \* loop counter of simulateRandomMutations
    numMutations,   \* argument of simulateRandomMutations
    maxIndelSize,   \* argument of simulateRandomMutations
    drawsInBounds,  \* every (pos, len) drawn so far lay inside the sequence
    records,        \* MutationRecord entries available after the driver
    rna,            \* the const std::string& handed to the analysis functions
    result,         \* what the analysis function returned or threw
    n0,             \* seq.size() on entry to simulateRandomMutations
    dna,            \* the const std::string& handed to transcribeDNA
    back            \* what reverseTranscribe returned or threw

vars == <<pc, call, seq, seq0, outcome, i, numMutations, maxIndelSize,
          drawsInBounds, records, rna, result, n0, dna, back>>

mutVars == <<pc, call, seq, seq0, outcome>>
simVars == <<i, numMutations, maxIndelSize, drawsInBounds, records, n0>>
anaVars == <<rna, result, dna, back>>

\* ---------------------------------------------------------------- bounds
WordBits == 3
MaxInitLen == 3
MaxFragLen == 2
MaxMutations == 2
MaxIndel == 2
MaxSeqLen == 5
MaxRnaLen == 11
MaxMixedLen == 8
MaxUsageLen == 6
MaxDnaLen == 4

\* ------------------------------------------------------- machine integers
SizeMod == 2 ^ WordBits
SizeT == 0 .. (SizeMod - 1)

\* unsigned addition of two size_t values
WordAdd(a, b) == (a + b) % SizeMod

Min(a, b) == IF a < b THEN a ELSE b
Max(a, b) == IF a < b THEN b ELSE a

\* ---------------------------------------------------------------- strings
bases == <<"A", "T", "C", "G">>
Bases == {bases[k] : k \in 1 .. Len(bases)}

\* every string over the alphabet S of length at most n
StringsUpTo(S, n) == UNION {[1 .. k -> S] : k \in 0 .. n}

Ok(s) == [seq |-> s, err |-> "ok"]
Throw(s, e) == [seq |-> s, err |-> e]

\* std::string::insert(pos, str): out_of_range when pos > size()
string_insert(s, pos, str) ==
    IF pos > Len(s)
    THEN Throw(s, "OutOfRange")
    ELSE Ok(SubSeq(s, 1, pos) \o str \o SubSeq(s, pos + 1, Len(s)))

\* std::string::erase(pos, n): out_of_range when pos > size(); otherwise
\* removes min(n, size() - pos) characters
string_erase(s, pos, n) ==
    IF pos > Len(s)
    THEN Throw(s, "OutOfRange")
    ELSE LET k == Min(n, Len(s) - pos)
         IN  Ok(SubSeq(s, 1, pos) \o SubSeq(s, pos + k + 1, Len(s)))

\* ------------------------------------------------------ mutation primitives
\* the bounds check written with > instead of >=
pointMutation_offByOne(s, pos, newBase) ==
    IF pos > Len(s)
    THEN Throw(s, "OutOfRange")
    ELSE Ok(IF pos < Len(s) THEN [s EXCEPT ![pos + 1] = newBase] ELSE s)

pointMutation(s, pos, newBase) ==
    IF pos >= Len(s)
    THEN Throw(s, "OutOfRange")
    ELSE Ok([s EXCEPT ![pos + 1] = newBase])

\* the bounds check written with >= instead of >: appending is refused
insertion_noAppend(s, pos, ins) ==
    IF pos >= Len(s)
    THEN Throw(s, "OutOfRange")
    ELSE string_insert(s, pos, ins)

insertion(s, pos, ins) ==
    IF pos > Len(s)
    THEN Throw(s, "OutOfRange")
    ELSE string_insert(s, pos, ins)

deletion(s, pos, length) ==
    IF WordAdd(pos, length) > Len(s)
    THEN Throw(s, "OutOfRange")
    ELSE string_erase(s, pos, length)

\* ------------------------------------------- a caller of one primitive
NoCall == [op |-> "none"]

InitCommon ==
    /\ pc = "idle"
    /\ call = NoCall
    /\ outcome = "none"
    /\ i = 0
    /\ numMutations = 0
    /\ maxIndelSize = 0
    /\ drawsInBounds = TRUE
    /\ records = <<>>
    /\ result = [status |-> "none"]
    /\ n0 = 0
    /\ back = [status |-> "none"]

Init ==
    /\ InitCommon
    /\ seq \in StringsUpTo(Bases, MaxInitLen)
    /\ seq0 = seq
    /\ rna = <<>>
    /\ dna = <<>>

Finish(c, r) ==
    /\ pc' = "done"
    /\ call' = c
    /\ seq' = r.seq
    /\ outcome' = r.err
    /\ UNCHANGED <<seq0, simVars, anaVars>>

CallPointMutation ==
    /\ pc = "idle"
    /\ \E pos \in SizeT, newBase \in Bases \cup {"N"} :
          Finish([op |-> "pointMutation", pos |-> pos, newBase |-> newBase],
                 pointMutation(seq, pos, newBase))

CallInsertion ==
    /\ pc = "idle"
    /\ \E pos \in SizeT, ins \in StringsUpTo(Bases, MaxFragLen) :
          Finish([op |-> "insertion", pos |-> pos, ins |-> ins],
                 insertion(seq, pos, ins))

CallDeletion ==
    /\ pc = "idle"
    /\ \E pos \in SizeT, length \in SizeT :
          Finish([op |-> "deletion", pos |-> pos, length |-> length],
                 deletion(seq, pos, length))

Next ==
    \/ CallPointMutation
    \/ CallInsertion
    \/ CallDeletion

Spec == Init /\ [][Next]_vars

\* ============================================ simulateRandomMutations
SimOp == "simulateRandomMutations"

\* a size distribution reaching one past the maximum
IndelSizes_onePast(m) == 1 .. (Max(1, m) + 1)

\* indelSizeDist(1, std::max<size_t>(1, maxIndelSize))
IndelSizes(m) == 1 .. Max(1, m)

\* posDist(0, seq.size() - 1), drawn on a non-empty sequence
PosRange(s) == 0 .. (Len(s) - 1)

\* the drawn deletion length used as it is
ClampLen_unclamped(len, s, pos) == len

\* len = std::min(len, seq.size() - pos)
ClampLen(len, s, pos) == Min(len, Len(s) - pos)

\* a fragment of len bases, each bases[baseDist(gen)]
Fragments(len) == [1 .. len -> Bases]

InitSim ==
    /\ InitCommon
    /\ seq \in StringsUpTo(Bases, MaxInitLen)
    /\ seq0 = <<>>
    /\ rna = <<>>
    /\ dna = <<>>

\* entry: the early return on an empty sequence or numMutations == 0
SimEnter ==
    /\ pc = "idle"
    /\ \E n \in 0 .. MaxMutations, m \in 0 .. MaxIndel :
          /\ call' = [op |-> SimOp]
          /\ numMutations' = n
          /\ maxIndelSize' = m
          /\ IF seq = <<>> \/ n = 0
             THEN pc' = "done" /\ outcome' = "ok"
             ELSE pc' = "loop" /\ outcome' = outcome
    /\ i' = 0
    /\ n0' = Len(seq)
    /\ UNCHANGED <<seq, seq0, drawsInBounds, records, anaVars>>

\* one pass of the loop body is possible
InLoop == pc = "loop" /\ i < numMutations /\ seq # <<>>

\* the primitive returned (next iteration) or threw (the exception escapes);
\* no branch of the switch builds a MutationRecord, and main's mutate
\* command writes only the id and the mutated sequence
SimApply(r, inBounds) ==
    /\ seq' = r.seq
    /\ drawsInBounds' = (drawsInBounds /\ inBounds)
    /\ IF r.err = "ok"
       THEN i' = i + 1 /\ pc' = "loop" /\ outcome' = outcome
       ELSE i' = i /\ pc' = "done" /\ outcome' = r.err
    /\ UNCHANGED <<call, seq0, numMutations, maxIndelSize, records, n0,
                   anaVars>>

SimPoint ==
    /\ InLoop
    /\ \E pos \in PosRange(seq), b \in 0 .. 3 :
          SimApply(pointMutation(seq, pos, bases[b + 1]), pos < Len(seq))

SimInsertion ==
    /\ InLoop
    /\ \E pos \in PosRange(seq), len \in IndelSizes(maxIndelSize) :
          /\ Len(seq) + len <= MaxSeqLen
          /\ \E ins \in Fragments(len) :
                SimApply(insertion(seq, pos, ins), pos < Len(seq))

SimDeletion ==
    /\ InLoop
    /\ \E pos \in PosRange(seq), drawn \in IndelSizes(maxIndelSize) :
          LET len == ClampLen(drawn, seq, pos)
          IN  SimApply(deletion(seq, pos, len),
                       pos < Len(seq) /\ len >= 1 /\ pos + len <= Len(seq))

\* the loop condition fails, or the break on an empty sequence
SimReturn ==
    /\ pc = "loop"
    /\ (i >= numMutations \/ seq = <<>>)
    /\ pc' = "done"
    /\ outcome' = "ok"
    /\ UNCHANGED <<call, seq, seq0, simVars, anaVars>>

NextSim ==
    \/ SimEnter
    \/ SimPoint
    \/ SimInsertion
    \/ SimDeletion
    \/ SimReturn

SpecSim == InitSim /\ [][NextSim]_vars

\* C4: the driver runs at most numMutations iterations, no primitive it
\* calls fails with OutOfRange (every drawn pos is below the current length
\* and every deletion has pos + len within it), it returns normally only
\* with the loop exhausted or the sequence empty, and a call on an empty
\* sequence or with numMutations == 0 returns at once with seq unchanged.
C4_DriverInBounds ==
    call.op = SimOp =>
        /\ i <= numMutations
        /\ outcome # "OutOfRange"
        /\ drawsInBounds
        /\ pc = "done" => (outcome = "ok" /\ (i = numMutations \/ seq = <<>>))
        /\ (pc = "done" /\ numMutations = 0) => i = 0
        /\ pc = "loop" => ENABLED NextSim

\* a call on an empty sequence or with numMutations == 0 changes nothing
C4_NoOpStep ==
    (pc = "idle" /\ (seq = <<>> \/ numMutations' = 0))
        => (pc' = "done" /\ outcome' = "ok" /\ seq' = seq /\ i' = 0)

\* every step taken inside the loop is one more iteration or the return
C4_LoopStep ==
    pc = "loop" => \/ pc' = "loop" /\ i' = i + 1 /\ seq # <<>>
                   \/ pc' = "done" /\ i' = i /\ seq' = seq

C4_DriverSafe ==
    /\ [](C4_DriverInBounds)
    /\ [][C4_NoOpStep]_vars
    /\ [][C4_LoopStep]_vars

\* the sequence became empty mid-loop and the driver stopped early, normally
C4_Witness ==
    /\ pc = "done"
    /\ call.op = SimOp
    /\ outcome = "ok"
    /\ seq = <<>>
    /\ i = 1
    /\ i < numMutations
    /\ maxIndelSize = 0

\* max(1, maxIndelSize): the most one iteration can add or remove
IndelBound == Max(1, maxIndelSize)

\* after i iterations the sequence is still over {A,T,C,G} and its length
\* lies between max(0, n0 - i * m) and n0 + i * m
C13_AlphabetAndLength ==
    call.op = SimOp =>
        /\ \A k \in 1 .. Len(seq) : seq[k] \in {"A", "T", "C", "G"}
        /\ Len(seq) >= Max(0, n0 - i * IndelBound)
        /\ Len(seq) <= n0 + i * IndelBound

\* one iteration changes the length by at most m
C13_IterationStep ==
    (pc = "loop" /\ pc' = "loop") =>
        /\ Len(seq') - Len(seq) <= IndelBound
        /\ Len(seq) - Len(seq') <= IndelBound

\* a Deletion iteration removes at least one character
C13_DeletionStep == SimDeletion => Len(seq') < Len(seq)

\* C13: started on an upper-case sequence over {A,T,C,G}, the driver keeps
\* the sequence over {A,T,C,G} after every iteration; each iteration changes
\* the length by at most m = max(1, maxIndelSize), a Deletion removing at
\* least one character, so that after k iterations from length n the length
\* lies between max(0, n - k*m) and n + k*m.
C13_DriverInvariant ==
    /\ [](C13_AlphabetAndLength)
    /\ [][C13_IterationStep]_vars
    /\ [][C13_DeletionStep]_vars

\* two insertions of the largest size: the upper bound n + k*m is met
C13_Witness ==
    /\ pc = "done"
    /\ call.op = SimOp
    /\ outcome = "ok"
    /\ maxIndelSize = 2
    /\ i = 2
    /\ n0 = 1
    /\ Len(seq) = n0 + i * IndelBound


\* C5: the driver hands back, with the mutated sequence, one MutationRecord
\* per edit it applied, in application order: as many records as iterations.
C5_OneRecordPerEdit ==
    (pc = "done" /\ call.op = SimOp) => Len(records) = i


\* ================================================================ analysis
\* std::toupper on the characters the inputs are drawn from
ToUpper(c) ==
    CASE c = "a" -> "A"
      [] c = "u" -> "U"
      [] c = "c" -> "C"
      [] c = "g" -> "G"
      [] c = "n" -> "N"
      [] c = "t" -> "T"
      [] OTHER   -> c

\* for (auto &ch : codon) ch = std::toupper(ch)
Upper(s) == [k \in 1 .. Len(s) |-> ToUpper(s[k])]

\* std::string::substr(pos, n) for pos <= size()
Substr(s, pos, n) == SubSeq(s, pos + 1, Min(pos + n, Len(s)))

startCodon == <<"A", "U", "G">>
stopCodons == << <<"U", "A", "A">>, <<"U", "A", "G">>, <<"U", "G", "A">> >>

\* ---------------------------------------------------------------- findORFs
IsStart(codon) == codon = startCodon

IsStop(sc) == sc = stopCodons[1] \/ sc = stopCodons[2] \/ sc = stopCodons[3]

\* the inner scan advancing one base at a time
StopStep_byOne(j) == j + 1

\* j += 3 of the stop search
StopStep(j) == j + 3

\* an ORF that ends where its stop codon starts
MakeORF_endAtStop(k, j, frame) == [start |-> k, end |-> j, frame |-> frame]

\* orfs.push_back(ORF{i, j + 3, frame})
MakeORF(k, j, frame) == [start |-> k, end |-> j + 3, frame |-> frame]

NoStop == -1

\* for (size_t j = ...; j + 3 <= n; j += 3): the index of the first stop
\* codon at or after j in steps of three, NoStop when the scan runs out
RECURSIVE FirstStop(_, _)
FirstStop(r, j) ==
    IF j + 3 > Len(r)
    THEN NoStop
    ELSE IF IsStop(Upper(Substr(r, j, 3)))
         THEN j
         ELSE FirstStop(r, StopStep(j))

\* for (size_t i = frame; i + 3 <= n; i += 3), from index k on
RECURSIVE ScanFrame(_, _, _, _)
ScanFrame(r, frame, k, orfs) ==
    IF k + 3 > Len(r)
    THEN orfs
    ELSE LET codon == Upper(Substr(r, k, 3))
             j == IF IsStart(codon) THEN FirstStop(r, k + 3) ELSE NoStop
         IN  ScanFrame(r, frame, k + 3,
                       IF j # NoStop
                       THEN Append(orfs, MakeORF(k, j, frame))
                       ELSE orfs)

\* the frames scanned from 2 down to 0
findORFs_framesDescending(r) ==
    ScanFrame(r, 0, 0, ScanFrame(r, 1, 1, ScanFrame(r, 2, 2, <<>>)))

\* for (int frame = 0; frame < 3; ++frame)
findORFs(r) ==
    ScanFrame(r, 2, 2, ScanFrame(r, 1, 1, ScanFrame(r, 0, 0, <<>>)))

\* inputs: upper-case strings up to MaxRnaLen (two frames with an ORF each
\* need 11 bases) and mixed-case strings up to MaxMixedLen
ScanChars == {"A", "U", "G"}
MixedChars == {"A", "U", "G", "a"}

InitORF ==
    /\ InitCommon
    /\ seq = <<>>
    /\ seq0 = <<>>
    /\ rna \in StringsUpTo(ScanChars, MaxRnaLen)
                \cup StringsUpTo(MixedChars, MaxMixedLen)
    /\ dna = <<>>

CallFindORFs ==
    /\ pc = "idle"
    /\ pc' = "done"
    /\ call' = [op |-> "findORFs"]
    /\ result' = [status |-> "ok", orfs |-> findORFs(rna)]
    /\ UNCHANGED <<seq, seq0, outcome, simVars, rna, dna, back>>

NextORF == CallFindORFs

SpecORF == InitORF /\ [][NextORF]_vars

OrfsReturned == pc = "done" /\ call.op = "findORFs"

\* C6: the ORFs come ordered by ascending frame and, within a frame, by
\* strictly ascending start: consecutive entries a, b have a.frame < b.frame
\* or a.frame = b.frame and a.start < b.start.
C6_OrfOrder ==
    OrfsReturned =>
        \A k \in 1 .. (Len(result.orfs) - 1) :
            LET a == result.orfs[k]
                b == result.orfs[k + 1]
            IN  \/ a.frame < b.frame
                \/ a.frame = b.frame /\ a.start < b.start

\* ORFs of two different frames in one result, the later frame's ORF
\* starting before the earlier frame's ORF ends
C6_Witness ==
    /\ OrfsReturned
    /\ Len(result.orfs) = 2
    /\ result.orfs[1].frame < result.orfs[2].frame
    /\ result.orfs[2].start < result.orfs[1].end

\* C7: every returned ORF has 0 <= start < end <= length, end - start
\* divisible by 3 and frame = start mod 3.
C7_OrfShape ==
    OrfsReturned =>
        \A k \in 1 .. Len(result.orfs) :
            LET o == result.orfs[k]
            IN  /\ 0 <= o.start
                /\ o.start < o.end
                /\ o.end <= Len(rna)
                /\ (o.end - o.start) % 3 = 0
                /\ o.frame = o.start % 3

\* an ORF of frame 1 whose stop codon is preceded by an out-of-frame stop
C7_Witness ==
    /\ OrfsReturned
    /\ \E k \in 1 .. Len(result.orfs) :
          LET o == result.orfs[k]
          IN  /\ o.frame = 1
              /\ o.end = Len(rna)
              /\ \E j \in (o.start + 1) .. (o.end - 4) :
                    /\ j % 3 # o.start % 3
                    /\ IsStop(Upper(Substr(rna, j, 3)))

\* the codon at C++ index k, case-folded (k + 3 <= length)
CodonAt(r, k) == <<ToUpper(r[k + 1]), ToUpper(r[k + 2]), ToUpper(r[k + 3])>>

StopSet == {<<"U", "A", "A">>, <<"U", "A", "G">>, <<"U", "G", "A">>}

\* the in-frame stop codons after the start at s
StopsAfter(r, s) ==
    {j \in (s + 1) .. (Len(r) - 3) : j % 3 = s % 3 /\ CodonAt(r, j) \in StopSet}

Least(S) == CHOOSE x \in S : \A y \in S : x <= y

\* every start / first-stop pairing of r
Pairings(r) ==
    {[start |-> s, end |-> Least(StopsAfter(r, s)) + 3, frame |-> s % 3] :
        s \in {t \in 0 .. (Len(r) - 3) :
                  CodonAt(r, t) = <<"A", "U", "G">> /\ StopsAfter(r, t) # {}}}

\* C8: findORFs reports exactly the start / first-stop pairings, each once:
\* an AUG at i with a first in-frame stop at j gives {i, j+3, i mod 3}, an
\* AUG with no stop after it gives nothing, and nothing else is reported;
\* so no AUG gives an empty result and "AUGUUUUAA" gives exactly {0, 9, 0}.
C8_ExactPairings ==
    OrfsReturned =>
        /\ {result.orfs[k] : k \in 1 .. Len(result.orfs)} = Pairings(rna)
        /\ Len(result.orfs) = Cardinality(Pairings(rna))
        /\ (\A t \in 0 .. (Len(rna) - 3) : CodonAt(rna, t) # <<"A", "U", "G">>)
              => result.orfs = <<>>
        /\ rna = <<"A", "U", "G", "U", "U", "U", "U", "A", "A">>
              => result.orfs = <<[start |-> 0, end |-> 9, frame |-> 0]>>

\* two AUGs of one frame, no stop between them, share the one stop codon
C8_Witness ==
    /\ OrfsReturned
    /\ rna = <<"A", "U", "G", "A", "U", "G", "U", "A", "A">>
    /\ result.orfs = << [start |-> 0, end |-> 9, frame |-> 0],
                        [start |-> 3, end |-> 9, frame |-> 0] >>


\* -------------------------------------------------------------- codonUsage
\* the DNA alphabet checked in place of the RNA one
IsRnaBase_dna(c) == c = "A" \/ c = "T" \/ c = "C" \/ c = "G"

\* !(c != 'A' && c != 'U' && c != 'C' && c != 'G')
IsRnaBase(c) == c = "A" \/ c = "U" \/ c = "C" \/ c = "G"

\* usage[codon] = 1 in place of the increment
Tallied_assignOne(usage, codon) ==
    IF codon \in DOMAIN usage
    THEN [usage EXCEPT ![codon] = 1]
    ELSE usage @@ (codon :> 1)

\* ++usage[codon] on a std::map: a missing key starts at 0
Tallied(usage, codon) ==
    IF codon \in DOMAIN usage
    THEN [usage EXCEPT ![codon] = @ + 1]
    ELSE usage @@ (codon :> 1)

\* for (size_t i = 0; i + 3 <= n; i += 3), from index k on; an invalid base
\* throws std::invalid_argument("Invalid RNA base: ...") out of the loop
RECURSIVE TallyFrom(_, _, _)
TallyFrom(r, k, usage) ==
    IF k + 3 > Len(r)
    THEN [status |-> "ok", usage |-> usage]
    ELSE LET codon == Upper(Substr(r, k, 3))
         IN  IF \E j \in 1 .. 3 : ~IsRnaBase(codon[j])
             THEN [status |-> "InvalidBase"]
             ELSE TallyFrom(r, k + 3, Tallied(usage, codon))

\* n % 3 != 0 throws std::invalid_argument("RNA length must be divisible
\* by 3") before any character is read
codonUsage(r) ==
    IF Len(r) % 3 # 0
    THEN [status |-> "LengthNotDivisibleByThree"]
    ELSE TallyFrom(r, 0, <<>>)

UsageChars == {"A", "U", "C", "g", "N"}

InitUsage ==
    /\ InitCommon
    /\ seq = <<>>
    /\ seq0 = <<>>
    /\ rna \in StringsUpTo(UsageChars, MaxUsageLen)
    /\ dna = <<>>

CallCodonUsage ==
    /\ pc = "idle"
    /\ pc' = "done"
    /\ call' = [op |-> "codonUsage"]
    /\ result' = codonUsage(rna)
    /\ UNCHANGED <<seq, seq0, outcome, simVars, rna, dna, back>>

NextUsage == CallCodonUsage

SpecUsage == InitUsage /\ [][NextUsage]_vars

UsageReturned == pc = "done" /\ call.op = "codonUsage"

RnaAlphabet == {"A", "U", "C", "G"}

AllRna(r) == \A k \in 1 .. Len(r) : ToUpper(r[k]) \in RnaAlphabet

RECURSIVE SumOver(_, _)
SumOver(f, S) ==
    IF S = {}
    THEN 0
    ELSE LET x == CHOOSE y \in S : TRUE
         IN  f[x] + SumOver(f, S \ {x})

\* C9: on an RNA sequence (any case) whose length is a multiple of 3,
\* codonUsage succeeds, its counts sum to length / 3, every key is an
\* uppercase 3-character codon and its count is the number of codon-aligned
\* indices 0, 3, 6, ... at which it occurs, which is at least 1.
C9_UsageCounts ==
    (UsageReturned /\ Len(rna) % 3 = 0 /\ AllRna(rna)) =>
        /\ result.status = "ok"
        /\ SumOver(result.usage, DOMAIN result.usage) = Len(rna) \div 3
        /\ \A key \in DOMAIN result.usage :
              /\ Len(key) = 3
              /\ \A j \in 1 .. 3 : key[j] \in RnaAlphabet
              /\ result.usage[key] >= 1
              /\ result.usage[key] =
                    Cardinality({k \in 0 .. (Len(rna) \div 3 - 1) :
                                    CodonAt(rna, 3 * k) = key})

\* one codon occurring twice, written with a lower-case base
C9_Witness ==
    /\ UsageReturned
    /\ rna = <<"g", "C", "U", "g", "C", "U">>
    /\ result.status = "ok"
    /\ result.usage = (<<"G", "C", "U">> :> 2)

\* C10: a length that is no multiple of 3 fails with
\* LengthNotDivisibleByThree whatever the characters; a length that is one
\* fails with InvalidBase exactly when some character, case-folded, is not
\* in {A,U,C,G}; a failing call carries no tally.
C10_UsageErrors ==
    UsageReturned =>
        /\ Len(rna) % 3 # 0 <=> result.status = "LengthNotDivisibleByThree"
        /\ (Len(rna) % 3 = 0 /\ ~AllRna(rna)) <=> result.status = "InvalidBase"
        /\ result.status # "ok" => DOMAIN result = {"status"}

\* a bad length together with an invalid character: the length error wins
C10_Witness ==
    /\ UsageReturned
    /\ Len(rna) = 4
    /\ rna[1] = "N"
    /\ result.status = "LengthNotDivisibleByThree"


\* ============================================================ transcription
\* the map transcription.h documents for transcribeDNA
DnaToRna_complement(base) ==
    CASE base = "A" -> "U"
      [] base = "T" -> "A"
      [] base = "C" -> "G"
      [] base = "G" -> "C"

\* the switch of transcribeDNA: case 'A' .. case 'G'
DnaToRna(base) ==
    CASE base = "A" -> "A"
      [] base = "T" -> "U"
      [] base = "C" -> "C"
      [] base = "G" -> "G"

\* the switch of reverseTranscribe: case 'A' .. case 'G'
RnaToDna(base) ==
    CASE base = "A" -> "A"
      [] base = "U" -> "T"
      [] base = "C" -> "C"
      [] base = "G" -> "G"

\* the characters the switch of transcribeDNA has a case for
DnaCases == {"A", "T", "C", "G"}

\* the characters the switch of reverseTranscribe has a case for
RnaCases == {"A", "U", "C", "G"}

\* for (char c : dna): the default case throws std::invalid_argument
transcribeDNA(d) ==
    IF \E k \in 1 .. Len(d) : ToUpper(d[k]) \notin DnaCases
    THEN [status |-> "InvalidArgument"]
    ELSE [status |-> "ok",
          out |-> [k \in 1 .. Len(d) |-> DnaToRna(ToUpper(d[k]))]]

\* for (char c : rna): the default case throws std::invalid_argument
reverseTranscribe(r) ==
    IF \E k \in 1 .. Len(r) : ToUpper(r[k]) \notin RnaCases
    THEN [status |-> "InvalidArgument"]
    ELSE [status |-> "ok",
          out |-> [k \in 1 .. Len(r) |-> RnaToDna(ToUpper(r[k]))]]

TransChars == {"A", "T", "C", "G", "U", "t"}

\* the caller holds one string, for transcribeDNA or for reverseTranscribe
InitTrans ==
    /\ InitCommon
    /\ seq = <<>>
    /\ seq0 = <<>>
    /\ \E s \in StringsUpTo(TransChars, MaxDnaLen) :
          \/ dna = s /\ rna = <<>>
          \/ dna = <<>> /\ rna = s

\* rna = transcribeDNA(dna)
CallTranscribeDNA ==
    /\ pc = "idle"
    /\ rna = <<>>
    /\ call' = [op |-> "transcribeDNA"]
    /\ result' = transcribeDNA(dna)
    /\ IF result'.status = "ok"
       THEN pc' = "transcribed" /\ rna' = result'.out
       ELSE pc' = "done" /\ rna' = rna
    /\ UNCHANGED <<seq, seq0, outcome, simVars, dna, back>>

\* reverseTranscribe(rna), on the caller's string or on a transcript
CallReverseTranscribe ==
    /\ pc \in {"idle", "transcribed"}
    /\ dna = <<>> \/ pc = "transcribed"
    /\ pc' = "done"
    /\ call' = [op |-> IF pc = "idle" THEN "reverseTranscribe" ELSE "roundTrip"]
    /\ back' = reverseTranscribe(rna)
    /\ UNCHANGED <<seq, seq0, outcome, simVars, rna, result, dna>>

NextTrans ==
    \/ CallTranscribeDNA
    \/ CallReverseTranscribe

SpecTrans == InitTrans /\ [][NextTrans]_vars

UpperDna(d) == \A k \in 1 .. Len(d) : d[k] \in {"A", "T", "C", "G"}

\* C11: for every upper-case DNA sequence (the empty one included)
\* transcribeDNA succeeds with a sequence of the same length over {A,U,C,G}
\* and reverseTranscribe of it gives the DNA sequence back.
C11_RoundTrip ==
    /\ (call.op = "transcribeDNA" /\ UpperDna(dna)) =>
          /\ result.status = "ok"
          /\ Len(result.out) = Len(dna)
          /\ \A k \in 1 .. Len(result.out) :
                result.out[k] \in {"A", "U", "C", "G"}
    /\ (call.op = "roundTrip" /\ UpperDna(dna)) =>
          /\ back.status = "ok"
          /\ back.out = dna

\* a round trip through all four bases
C11_Witness ==
    /\ pc = "done"
    /\ call.op = "roundTrip"
    /\ dna = <<"A", "T", "C", "G">>
    /\ back.status = "ok"
    /\ back.out = dna

HeaderDnaToRna == ("A" :> "U") @@ ("T" :> "A") @@ ("C" :> "G") @@ ("G" :> "C")
HeaderRnaToDna == ("U" :> "A") @@ ("A" :> "T") @@ ("C" :> "G") @@ ("G" :> "C")

\* C12: transcribeDNA maps, position by position, A -> U, T -> A, C -> G,
\* G -> C; reverseTranscribe maps U -> A, A -> T, C -> G, G -> C; each fails
\* with an invalid-argument error on a character outside its alphabet.
C12_HeaderMaps ==
    /\ call.op = "transcribeDNA" =>
          IF \A k \in 1 .. Len(dna) : ToUpper(dna[k]) \in DOMAIN HeaderDnaToRna
          THEN /\ result.status = "ok"
               /\ Len(result.out) = Len(dna)
               /\ \A k \in 1 .. Len(dna) :
                     result.out[k] = HeaderDnaToRna[ToUpper(dna[k])]
          ELSE result.status = "InvalidArgument"
    /\ call.op = "reverseTranscribe" =>
          IF \A k \in 1 .. Len(rna) : ToUpper(rna[k]) \in DOMAIN HeaderRnaToDna
          THEN /\ back.status = "ok"
               /\ Len(back.out) = Len(rna)
               /\ \A k \in 1 .. Len(rna) :
                     back.out[k] = HeaderRnaToDna[ToUpper(rna[k])]
          ELSE back.status = "InvalidArgument"

\* ======================================= claims on the primitives
\* the string s without the characters at C++ indices pos .. pos+count-1
WithoutRange(s, pos, count) ==
    [k \in 1 .. (Len(s) - count) |-> IF k <= pos THEN s[k] ELSE s[k + count]]

\* C1: deletion(seq, pos, count), for every size_t pos and count: if the
\* mathematical sum pos + count exceeds the length the call fails with
\* OutOfRange and seq is unchanged; otherwise it succeeds, exactly the count
\* characters at pos .. pos+count-1 are removed and the length drops by count.
C1_DeletionContract ==
    (pc = "done" /\ call.op = "deletion") =>
        IF call.pos + call.length > Len(seq0)
        THEN outcome = "OutOfRange" /\ seq = seq0
        ELSE /\ outcome = "ok"
             /\ seq = WithoutRange(seq0, call.pos, call.length)
             /\ Len(seq) = Len(seq0) - call.length

\* C2: insertion(seq, pos, fragment) fails with OutOfRange and leaves seq
\* unchanged when pos > length; when pos <= length (append included) it
\* succeeds, the result is old[0..pos) ++ fragment ++ old[pos..length) and
\* the length grows by exactly the fragment's length.
C2_InsertionContract ==
    (pc = "done" /\ call.op = "insertion") =>
        IF call.pos > Len(seq0)
        THEN outcome = "OutOfRange" /\ seq = seq0
        ELSE /\ outcome = "ok"
             /\ Len(seq) = Len(seq0) + Len(call.ins)
             /\ \A k \in 1 .. Len(seq0) :
                   IF k <= call.pos
                   THEN seq[k] = seq0[k]
                   ELSE seq[k + Len(call.ins)] = seq0[k]
             /\ \A k \in 1 .. Len(call.ins) : seq[call.pos + k] = call.ins[k]

\* the append case: a non-empty fragment inserted at pos == length
C2_Witness ==
    /\ pc = "done"
    /\ call.op = "insertion"
    /\ call.pos = Len(seq0)
    /\ Len(seq0) = 2
    /\ Len(call.ins) = 2
    /\ outcome = "ok"
    /\ seq = seq0 \o call.ins

\* C3: pointMutation(seq, pos, newBase) fails with OutOfRange and leaves seq
\* unchanged when pos >= length (pos == length included); when pos < length
\* it succeeds, the character at pos becomes newBase, every other index
\* keeps its character and the length is unchanged.
C3_PointMutationContract ==
    (pc = "done" /\ call.op = "pointMutation") =>
        IF call.pos >= Len(seq0)
        THEN outcome = "OutOfRange" /\ seq = seq0
        ELSE /\ outcome = "ok"
             /\ Len(seq) = Len(seq0)
             /\ seq[call.pos + 1] = call.newBase
             /\ \A k \in 1 .. Len(seq0) : k # call.pos + 1 => seq[k] = seq0[k]

\* a successful mutation of the last character to a base it did not hold
C3_Witness ==
    /\ pc = "done"
    /\ call.op = "pointMutation"
    /\ Len(seq0) = 3
    /\ call.pos = 2
    /\ seq0[3] # call.newBase
    /\ outcome = "ok"
    /\ seq[3] = call.newBase

====
